---- MODULE Spec2Model ----
(***************************************************************************)
(* A state-machine model of the k8s-rag repository.                        *)
(*                                                                         *)
(*   SpecAccessor  scripts/chroma_connection.py: the lazily built client   *)
(*                 and collection singletons, called from concurrent       *)
(*                 request-handler threads.                                *)
(*   SpecIngest    scripts/embed.py (the ingestion script) next to one     *)
(*                 handler that retrieves through the accessors.           *)
(*   SpecPipeline  the served RAG pipeline (scripts.app, which             *)
(*                 semantic_test.py starts and queries): EmbeddingStore,   *)
(*                 AnswerGenerator and RagPipeline as spec.md sections 3,  *)
(*                 4 and 7 describe them, and the server process           *)
(*                 start_server launches.                                  *)
(*   SpecSequential  the accessors of chroma_connection.py under calls     *)
(*                 that do not overlap, get_chroma_collection also called  *)
(*                 directly with any client.                               *)
(*   SpecHarness   semantic_test.py: runs of test_kubernetes_query with    *)
(*                 wait_for_server and ensure_data_loaded, the server seen *)
(*                 through the outcomes of the requests.                   *)
(*   SpecWait      wait_for_server called with any max_retries.            *)
(***************************************************************************)
EXTENDS Integers, Sequences, FiniteSets, TLC

(***************************************************************************)
(* Bounds of the model.                                                    *)
(***************************************************************************)
NThreads == 2
MaxCalls == 2
MaxRuns == 2

Threads == 1..NThreads

(***************************************************************************)
(* Values.                                                                 *)
(***************************************************************************)
\* Python's None, for the two module globals and for locals not yet bound.
None == 0

\* The environment variables get_chroma_client reads.
CredentialVars == {"CHROMA_API_KEY", "CHROMA_TENANT", "CHROMA_DATABASE"}

\* Strings are sequences of characters.  Document texts (the possible
\* contents of inputs/k8s.txt among them) and query texts; a query may be
\* empty or consist of blanks only.
Texts == {<<"k">>, <<"o">>}
AllQueries == {<< >>, <<" ">>, <<" ", " ">>, <<"k">>}
Queries == {<<"k">>}

\* The two collections the sources address: embed.py opens
\* PersistentClient(path="./db") / "docs"; chroma_connection.py opens
\* CloudClient(...) / "my_collection".
EmbedCollection == <<"persistent:./db", "docs">>
AccessorCollection == <<"cloud", "my_collection">>
CollectionKeys == {EmbedCollection, AccessorCollection}

\* The id embed.py ingests under.
EmbedId == "k8s"

VARIABLES
    \* ---- scripts/chroma_connection.py ----
    env,          \* the credential variables that are set (fixed after load_dotenv)
    client,       \* module global _client: None or a client instance
    collection,   \* module global _collection: None or a collection instance
    clientCtor,   \* number of client instances chromadb.CloudClient(...) has built
    collCtor,     \* number of collection handles get_or_create_collection has built
    pc,           \* per thread: the statement it is about to execute
    call,         \* per thread: which accessor the current call is for
    local,        \* per thread: [cl |-> the client it holds, tmp |-> a value built, not yet assigned]
    ret,          \* per thread: what its last finished call returned or raised
    calls,        \* number of accessor calls started so far
    \* ---- the vector backends ----
    db,           \* collection key -> sequence of records [id, text], in insertion order
    \* ---- scripts/embed.py ----
    runs,         \* number of completed runs of embed.py
    lastAdd,      \* <<text>> of the most recent collection.add for EmbedId (<< >> before)
    \* ---- a handler using the collection the accessor returned ----
    qres,         \* the last query made through the accessor: << >> or
                  \* <<[q, passages, held |-> what embed.py had stored by then]>>
    sim,          \* the similarity the collection's embedding function gives a
                  \* (query, text) pair: opaque, fixed for the collection's lifetime

    \* ---- the served pipeline ----
    server,       \* the server process: [up, by, flag, variant]
    mockFlag,     \* the current value of USE_MOCK_LLM in the server's environment
    used,         \* generator variants that served a generate call of this process
    kConf,        \* the pipeline's configured number of passages to retrieve (k)
    req,          \* the request being handled
    prev,         \* << >>, or <<[q, out, variant]>>: the last answer returned
                  \* since the store last changed
    \* ---- semantic_test.py ----
    test,         \* the run of test_kubernetes_query
    wait,         \* the current call of wait_for_server
    ens,          \* the current call of ensure_data_loaded
    srv           \* what the harness's requests met: the server at port 8000

storeVars == <<env, client, collection, clientCtor, collCtor, pc, call, local, ret,
               calls, db, runs, lastAdd, qres, sim>>

pipeVars == <<server, mockFlag, used, kConf, req, prev>>

harnessVars == <<test, wait, ens, srv>>

vars == <<storeVars, pipeVars, harnessVars>>

(***************************************************************************)
(* The vector backend (chromadb), as far as the sources use it.            *)
(***************************************************************************)
\* Ids present in a collection.
IdsOf(recs) == {recs[i].id : i \in 1..Len(recs)}

\* Records of a collection holding a given id.
RecordsWithId(recs, id) == {i \in 1..Len(recs) : recs[i].id = id}

\* Collection.add(documents=[text], ids=[id]).  chromadb's add inserts a new
\* record; for an id the collection already holds the add is ignored and the
\* stored record stays as it is (replacing is what Collection.upsert does).
CollectionAdd(recs, id, text) ==
    IF id \in IdsOf(recs) THEN recs
    ELSE Append(recs, [id |-> id, text |-> text])

\* The record, among those at the indices S, that a nearest-neighbour search
\* for q returns first: the most similar one, the earliest added among equals.
Nearest_LatestWins(recs, q, S) ==
    CHOOSE i \in S : \A j \in S :
        \/ sim[<<q, recs[i].text>>] > sim[<<q, recs[j].text>>]
        \/ sim[<<q, recs[i].text>>] = sim[<<q, recs[j].text>>] /\ i >= j

Nearest(recs, q, S) ==
    CHOOSE i \in S : \A j \in S :
        \/ sim[<<q, recs[i].text>>] > sim[<<q, recs[j].text>>]
        \/ sim[<<q, recs[i].text>>] = sim[<<q, recs[j].text>>] /\ i <= j

RECURSIVE TopK(_, _, _, _)
TopK(recs, q, S, k) ==
    IF k = 0 \/ S = {} THEN << >>
    ELSE LET i == Nearest(recs, q, S)
         IN  <<i>> \o TopK(recs, q, S \ {i}, k - 1)

\* query(text, k): the indices of the top-k records, best first.
Query(recs, q, k) == TopK(recs, q, 1..Len(recs), k)

\* The RetrievedPassage {text, score} of the record at index i.
Passage(recs, q, i) == [text |-> recs[i].text, score |-> sim[<<q, recs[i].text>>]]

\* The passages of a ranking.
Passages(recs, q, hits) == [j \in 1..Len(hits) |-> Passage(recs, q, hits[j])]

\* The outcomes of chromadb.CloudClient(api_key=, tenant=, database=) given the
\* credential variables that are set.  chromadb raises ValueError when the API
\* key is missing; a missing tenant or database is rejected by some releases
\* and resolved from the API key by others; the constructor talks to the
\* server and can fail to connect.
CloudClient(e) ==
    IF "CHROMA_API_KEY" \notin e THEN {"ValueError"}
    ELSE IF e = CredentialVars THEN {"ok", "ConnectionError"}
    ELSE {"ok", "ValueError", "ConnectionError"}

\* The outcomes of client.get_or_create_collection(name="my_collection").
GetOrCreateCollection == {"ok", "ConnectionError"}

(***************************************************************************)
(* scripts/chroma_connection.py                                            *)
(***************************************************************************)
NoLocal == [cl |-> None, tmp |-> None]
NoRet == [kind |-> "none", val |-> None]

Returned(v) == [kind |-> "return", val |-> v]
Raised(x) == [kind |-> "raise", val |-> x]

\* A handler thread calls get_chroma_client().
StartClientCall(t) ==
    /\ pc[t] = "idle"
    /\ calls < MaxCalls
    /\ calls' = calls + 1
    /\ call' = [call EXCEPT ![t] = "client"]
    /\ local' = [local EXCEPT ![t] = NoLocal]
    /\ pc' = [pc EXCEPT ![t] = "client_check"]
    /\ UNCHANGED <<env, client, collection, clientCtor, collCtor, ret, db, runs,
                   lastAdd, qres, sim>>
    /\ UNCHANGED <<pipeVars, harnessVars>>

\* A handler thread asks for get_chroma_collection; its parameter
\* client = Depends(get_chroma_client) is resolved first, by a call of
\* get_chroma_client().
StartCollectionCall(t) ==
    /\ pc[t] = "idle"
    /\ calls < MaxCalls
    /\ calls' = calls + 1
    /\ call' = [call EXCEPT ![t] = "collection"]
    /\ local' = [local EXCEPT ![t] = NoLocal]
    /\ pc' = [pc EXCEPT ![t] = "client_check"]
    /\ UNCHANGED <<env, client, collection, clientCtor, collCtor, ret, db, runs,
                   lastAdd, qres, sim>>
    /\ UNCHANGED <<pipeVars, harnessVars>>

\* A client object that is not the singleton: what a caller other than
\* FastAPI may pass as get_chroma_collection's client parameter (line 23).
OtherClient == 99

\* What a direct caller may pass as the client argument.
ClientArgs == {OtherClient} \cup ({client} \ {None})

\* A direct call get_chroma_collection(client = c): no dependency is
\* resolved, the body starts at line 25.
StartDirectCollectionCall(t, c) ==
    /\ pc[t] = "idle"
    /\ calls < MaxCalls
    /\ calls' = calls + 1
    /\ call' = [call EXCEPT ![t] = "direct"]
    /\ local' = [local EXCEPT ![t] = [NoLocal EXCEPT !.cl = c]]
    /\ pc' = [pc EXCEPT ![t] = "coll_check"]
    /\ UNCHANGED <<env, client, collection, clientCtor, collCtor, ret, db, runs,
                   lastAdd, qres, sim>>
    /\ UNCHANGED <<pipeVars, harnessVars>>

\* No accessor call is in progress.
AllIdle == \A t \in Threads : pc[t] = "idle"

\* line 15, with the test left out: a client is built on every call
ClientCheck_AlwaysNew(t) ==
    /\ pc[t] = "client_check"
    /\ pc' = [pc EXCEPT ![t] = "client_new"]
    /\ UNCHANGED <<env, client, collection, clientCtor, collCtor, call, local, ret,
                   calls, db, runs, lastAdd, qres, sim>>
    /\ UNCHANGED <<pipeVars, harnessVars>>

\* get_chroma_client, line 15: if _client is None
ClientCheck(t) ==
    /\ pc[t] = "client_check"
    /\ pc' = [pc EXCEPT ![t] = IF client = None THEN "client_new" ELSE "client_return"]
    /\ UNCHANGED <<env, client, collection, clientCtor, collCtor, call, local, ret,
                   calls, db, runs, lastAdd, qres, sim>>
    /\ UNCHANGED <<pipeVars, harnessVars>>

\* get_chroma_client, lines 16-20: the call chromadb.CloudClient(...).  An
\* exception leaves the function at once: nothing is assigned.
ClientNew(t) ==
    /\ pc[t] = "client_new"
    /\ \E o \in CloudClient(env) :
         IF o = "ok"
         THEN /\ clientCtor' = clientCtor + 1
              /\ local' = [local EXCEPT ![t].tmp = clientCtor + 1]
              /\ pc' = [pc EXCEPT ![t] = "client_assign"]
              /\ ret' = ret
         ELSE /\ ret' = [ret EXCEPT ![t] = Raised(o)]
              /\ pc' = [pc EXCEPT ![t] = "idle"]
              /\ UNCHANGED <<clientCtor, local>>
    /\ UNCHANGED <<env, client, collection, collCtor, call, calls, db, runs,
                   lastAdd, qres, sim>>
    /\ UNCHANGED <<pipeVars, harnessVars>>

\* get_chroma_client, line 16: the assignment _client = <the new client>
ClientAssign(t) ==
    /\ pc[t] = "client_assign"
    /\ client' = local[t].tmp
    /\ local' = [local EXCEPT ![t].tmp = None]
    /\ pc' = [pc EXCEPT ![t] = "client_return"]
    /\ UNCHANGED <<env, collection, clientCtor, collCtor, call, ret, calls, db,
                   runs, lastAdd, qres, sim>>
    /\ UNCHANGED <<pipeVars, harnessVars>>

\* get_chroma_client, line 21: return _client (the global is read again).
ClientReturn(t) ==
    /\ pc[t] = "client_return"
    /\ IF call[t] = "client"
       THEN /\ ret' = [ret EXCEPT ![t] = Returned(client)]
            /\ pc' = [pc EXCEPT ![t] = "idle"]
            /\ local' = local
       ELSE /\ local' = [local EXCEPT ![t].cl = client]
            /\ pc' = [pc EXCEPT ![t] = "coll_check"]
            /\ ret' = ret
    /\ UNCHANGED <<env, client, collection, clientCtor, collCtor, call, calls, db,
                   runs, lastAdd, qres, sim>>
    /\ UNCHANGED <<pipeVars, harnessVars>>

\* get_chroma_collection, line 25: if _collection is None
CollCheck(t) ==
    /\ pc[t] = "coll_check"
    /\ pc' = [pc EXCEPT ![t] = IF collection = None THEN "coll_new" ELSE "coll_return"]
    /\ UNCHANGED <<env, client, collection, clientCtor, collCtor, call, local, ret,
                   calls, db, runs, lastAdd, qres, sim>>
    /\ UNCHANGED <<pipeVars, harnessVars>>

\* lines 26-28, with a failed creation also discarding the client
CollNew_DropsClient(t) ==
    /\ pc[t] = "coll_new"
    /\ \E o \in GetOrCreateCollection :
         IF o = "ok"
         THEN /\ collCtor' = collCtor + 1
              /\ local' = [local EXCEPT ![t].tmp = collCtor + 1]
              /\ pc' = [pc EXCEPT ![t] = "coll_assign"]
              /\ UNCHANGED <<ret, client>>
         ELSE /\ ret' = [ret EXCEPT ![t] = Raised(o)]
              /\ pc' = [pc EXCEPT ![t] = "idle"]
              /\ client' = None
              /\ UNCHANGED <<collCtor, local>>
    /\ UNCHANGED <<env, collection, clientCtor, call, calls, db, runs,
                   lastAdd, qres, sim>>
    /\ UNCHANGED <<pipeVars, harnessVars>>

\* get_chroma_collection, lines 26-28: client.get_or_create_collection(...)
CollNew(t) ==
    /\ pc[t] = "coll_new"
    /\ \E o \in GetOrCreateCollection :
         IF o = "ok"
         THEN /\ collCtor' = collCtor + 1
              /\ local' = [local EXCEPT ![t].tmp = collCtor + 1]
              /\ pc' = [pc EXCEPT ![t] = "coll_assign"]
              /\ ret' = ret
         ELSE /\ ret' = [ret EXCEPT ![t] = Raised(o)]
              /\ pc' = [pc EXCEPT ![t] = "idle"]
              /\ UNCHANGED <<collCtor, local>>
    /\ UNCHANGED <<env, client, collection, clientCtor, call, calls, db, runs,
                   lastAdd, qres, sim>>
    /\ UNCHANGED <<pipeVars, harnessVars>>

\* get_chroma_collection, line 26: the assignment _collection = <the handle>
CollAssign(t) ==
    /\ pc[t] = "coll_assign"
    /\ collection' = local[t].tmp
    /\ local' = [local EXCEPT ![t].tmp = None]
    /\ pc' = [pc EXCEPT ![t] = "coll_return"]
    /\ UNCHANGED <<env, client, clientCtor, collCtor, call, ret, calls, db, runs,
                   lastAdd, qres, sim>>
    /\ UNCHANGED <<pipeVars, harnessVars>>

\* get_chroma_collection, line 29: return _collection
CollReturn(t) ==
    /\ pc[t] = "coll_return"
    /\ ret' = [ret EXCEPT ![t] = Returned(collection)]
    /\ pc' = [pc EXCEPT ![t] = "idle"]
    /\ UNCHANGED <<env, client, collection, clientCtor, collCtor, call, local,
                   calls, db, runs, lastAdd, qres, sim>>
    /\ UNCHANGED <<pipeVars, harnessVars>>

\* A handler that was handed the accessor's collection queries it.  Every
\* handle get_chroma_collection builds is a handle on AccessorCollection.
AccessorQuery(t, q) ==
    /\ pc[t] = "idle"
    /\ call[t] = "collection"
    /\ ret[t].kind = "return"
    /\ qres' = <<[q |-> q,
                  passages |-> Passages(db[AccessorCollection], q,
                                        Query(db[AccessorCollection], q, 1)),
                  held |-> db[EmbedCollection]]>>
    /\ UNCHANGED <<env, client, collection, clientCtor, collCtor, pc, call, local,
                   ret, calls, db, runs, lastAdd, sim>>
    /\ UNCHANGED <<pipeVars, harnessVars>>

(***************************************************************************)
(* scripts/embed.py: one run of the script, with inputs/k8s.txt holding    *)
(* `text`.                                                                 *)
(***************************************************************************)
RunEmbed(text) ==
    /\ runs < MaxRuns
    /\ runs' = runs + 1
    /\ db' = [db EXCEPT ![EmbedCollection] = CollectionAdd(@, EmbedId, text)]
    /\ lastAdd' = <<text>>
    /\ UNCHANGED <<env, client, collection, clientCtor, collCtor, pc, call, local,
                   ret, calls, qres, sim>>
    /\ UNCHANGED <<pipeVars, harnessVars>>

(***************************************************************************)
(* The served pipeline: spec.md sections 3, 4 and 7.  The module           *)
(* scripts.app that start_server launches is not among the sources; what   *)
(* follows is written from its description.  The pipeline's EmbeddingStore *)
(* wraps the accessors' collection, db[AccessorCollection].                *)
(***************************************************************************)
MaxK == 2
MaxScore == 1

\* Runs of test_kubernetes_query.
MaxTestRuns == 2

\* The largest max_retries a direct caller passes to wait_for_server.
MaxRetries == 4

DocIds == {"d1", "d2"}

\* Values of USE_MOCK_LLM.
FlagValues == {"1", "0"}

\* semantic_test.py, start_server, lines 60-61: the environment the harness
\* gives the server it starts: env["USE_MOCK_LLM"] = "1".
StartServerEnv_NotMock == "0"
StartServerEnv == "1"

\* The generator variant a process selects from the flag at initialisation.
SelectVariant(flag) == IF flag = "1" THEN "mock" ELSE "real"

\* The variant a request's generate call uses: the one selected at
\* initialisation.
GeneratorVariant == server.variant

ServerDown == [up |-> FALSE, by |-> "none", flag |-> "none", variant |-> "none"]

\* ---- strings ----
RECURSIVE LStrip(_)
LStrip(s) == IF s # << >> /\ Head(s) = " " THEN LStrip(Tail(s)) ELSE s

RECURSIVE RStrip(_)
RStrip(s) ==
    IF s # << >> /\ s[Len(s)] = " " THEN RStrip(SubSeq(s, 1, Len(s) - 1)) ELSE s

Strip(s) == RStrip(LStrip(s))

\* A query answer() rejects: empty, or blanks only.
IsBlank_EmptyOnly(s) == s = << >>
IsBlank(s) == Strip(s) = << >>

Min(a, b) == IF a <= b THEN a ELSE b

\* ---- EmbeddingStore.add: upsert {id, text} ----
Upsert(recs, id, text) ==
    IF id \in IdsOf(recs)
    THEN [i \in 1..Len(recs) |->
            IF recs[i].id = id THEN [id |-> id, text |-> text] ELSE recs[i]]
    ELSE Append(recs, [id |-> id, text |-> text])

\* ---- AnswerGenerator ----
MockPrefix == <<"Based on the available information: ">>
NoInfoText == <<"No information available.">>

\* The context handed to generate: the passage texts in ranking order.
Context(passages) == [j \in 1..Len(passages) |-> passages[j].text]

\* MockGenerator.generate: a template around the first context passage.
MockGenerate_FromQuery(q, context) == MockPrefix \o q \o <<".">>
MockGenerate(q, context) ==
    MockPrefix \o (IF context = << >> THEN << >> ELSE context[1]) \o <<".">>

\* What the completion runtime may send back to RealGenerator.
Responses == {<<"a">>, <<" ", "a", " ">>, <<" ">>}

\* RealGenerator.generate: the response verbatim, whitespace trimmed.
RealGenerate(response) == Strip(response)

\* ---- Answer ----
Answer(text, passages) == [text |-> text, source_passages |-> passages]
NoInfoAnswer == Answer(NoInfoText, << >>)

\* ---- a request ----
IdleReq ==
    [op |-> "none", pc |-> "idle", q |-> << >>, id |-> "none",
     hits |-> << >>, passages |-> << >>, snap |-> << >>,
     nq |-> 0, ng |-> 0, na |-> 0, variant |-> "none", resp |-> << >>,
     err |-> "none", out |-> NoRet]

\* A failed backend or model call ends the request with that error.
Fail_Retry(r, kind) == [r EXCEPT !.err = kind]
Fail(r, kind) == [r EXCEPT !.pc = "done", !.err = kind, !.out = Raised(kind)]

\* After retrieval: the short-circuit on an empty result set.
AfterRetrieval_Always(passages) == "generate"
AfterRetrieval(passages) == IF passages = << >> THEN "canned" ELSE "generate"

\* ---- the server process ----
\* start_server (semantic_test.py lines 57-78): the harness starts the server
\* with StartServerEnv; the process selects its generator variant once.
HarnessStartServer ==
    /\ ~server.up
    /\ server' = [up |-> TRUE, by |-> "harness", flag |-> StartServerEnv,
                  variant |-> SelectVariant(StartServerEnv)]
    /\ mockFlag' = StartServerEnv
    /\ used' = {}
    /\ req' = IdleReq
    /\ UNCHANGED <<storeVars, harnessVars, prev, kConf>>

\* A server started by someone else, with any value of the flag.
ExternalStartServer(f) ==
    /\ ~server.up
    /\ server' = [up |-> TRUE, by |-> "external", flag |-> f,
                  variant |-> SelectVariant(f)]
    /\ mockFlag' = f
    /\ used' = {}
    /\ req' = IdleReq
    /\ UNCHANGED <<storeVars, harnessVars, prev, kConf>>

\* The process ends (test_kubernetes_query lines 170-172 terminate a server
\* the harness started).
StopServer ==
    /\ server.up
    /\ req.pc = "idle"
    /\ server' = ServerDown
    /\ used' = {}
    /\ UNCHANGED <<storeVars, harnessVars, prev, mockFlag, kConf, req>>

\* The flag changes in the environment of a running process.
SetFlag(f) ==
    /\ server.up
    /\ f # mockFlag
    /\ mockFlag' = f
    /\ UNCHANGED <<storeVars, harnessVars, prev, server, used, kConf, req>>

\* ---- RagPipeline.answer(query) ----
BeginAnswer(q) ==
    /\ server.up
    /\ req.pc = "idle"
    /\ req' = [IdleReq EXCEPT !.op = "answer", !.pc = "validate", !.q = q,
                              !.snap = db[AccessorCollection]]
    /\ UNCHANGED <<storeVars, harnessVars, prev, server, mockFlag, used, kConf>>

\* validates query is non-empty
Validate ==
    /\ req.pc = "validate"
    /\ req' = IF IsBlank(req.q)
              THEN [req EXCEPT !.pc = "done", !.out = Raised("InvalidQueryError")]
              ELSE [req EXCEPT !.pc = "query"]
    /\ UNCHANGED <<storeVars, harnessVars, prev, server, mockFlag, used, kConf>>

\* EmbeddingStore.query(query, k); the backend may be unreachable.
StoreQuery ==
    /\ req.pc = "query"
    /\ \E ok \in BOOLEAN :
         LET r == [req EXCEPT !.nq = @ + 1]
             hits == Query(db[AccessorCollection], req.q, kConf)
         IN  req' = IF ok
                    THEN [r EXCEPT !.pc = "retrieved", !.hits = hits,
                                   !.passages = Passages(db[AccessorCollection],
                                                         req.q, hits)]
                    ELSE Fail(r, "StoreUnavailableError")
    /\ UNCHANGED <<storeVars, harnessVars, prev, server, mockFlag, used, kConf>>

\* The step after retrieval, with the pipeline keeping the query it served
\* as a document of the store.
Retrieved_StoresQuery ==
    /\ req.pc = "retrieved"
    /\ req' = IF AfterRetrieval(req.passages) = "canned"
              THEN [req EXCEPT !.pc = "done", !.out = Returned(NoInfoAnswer)]
              ELSE [req EXCEPT !.pc = "generate"]
    /\ db' = [db EXCEPT ![AccessorCollection] = Upsert(@, "d1", req.q)]
    /\ UNCHANGED <<env, client, collection, clientCtor, collCtor, pc, call, local,
                   ret, calls, runs, lastAdd, qres, sim, harnessVars, prev, server,
                   mockFlag, used, kConf>>

\* empty result set: the canned answer, without the generator
Retrieved ==
    /\ req.pc = "retrieved"
    /\ req' = IF AfterRetrieval(req.passages) = "canned"
              THEN [req EXCEPT !.pc = "done", !.out = Returned(NoInfoAnswer)]
              ELSE [req EXCEPT !.pc = "generate"]
    /\ UNCHANGED <<storeVars, harnessVars, prev, server, mockFlag, used, kConf>>

\* AnswerGenerator.generate(query, context), by the selected variant
Generate ==
    /\ req.pc = "generate"
    /\ LET v == GeneratorVariant
           r == [req EXCEPT !.ng = @ + 1, !.variant = v]
       IN  /\ used' = used \cup {v}
           /\ IF v = "mock"
              THEN req' = [r EXCEPT !.pc = "done",
                             !.out = Returned(Answer(
                                 MockGenerate(req.q, Context(req.passages)),
                                 req.passages))]
              ELSE \/ req' = Fail(r, "GenerationUnavailableError")
                   \/ \E resp \in Responses :
                        req' = [r EXCEPT !.pc = "done", !.resp = resp,
                                  !.out = Returned(Answer(RealGenerate(resp),
                                                          req.passages))]
    /\ UNCHANGED <<storeVars, harnessVars, prev, server, mockFlag, kConf>>

\* ---- RagPipeline.ingest(text, id): pass-through to EmbeddingStore.add ----
BeginIngest(text, id) ==
    /\ server.up
    /\ req.pc = "idle"
    /\ req' = [IdleReq EXCEPT !.op = "ingest", !.pc = "add", !.q = text, !.id = id,
                              !.snap = db[AccessorCollection]]
    /\ UNCHANGED <<storeVars, harnessVars, prev, server, mockFlag, used, kConf>>

StoreAdd ==
    /\ req.pc = "add"
    /\ \E ok \in BOOLEAN :
         LET r == [req EXCEPT !.na = @ + 1]
         IN  IF ok
             THEN /\ db' = [db EXCEPT ![AccessorCollection] = Upsert(@, req.id, req.q)]
                  /\ req' = [r EXCEPT !.pc = "done", !.out = Returned(<< >>)]
                  /\ prev' = << >>
             ELSE /\ db' = db
                  /\ req' = Fail(r, "StoreUnavailableError")
                  /\ prev' = prev
    /\ UNCHANGED <<env, client, collection, clientCtor, collCtor, pc, call, local,
                   ret, calls, runs, lastAdd, qres, sim, server, mockFlag, used,
                   kConf, harnessVars>>

\* The response has been sent; the handler takes the next request.
Finish ==
    /\ req.pc = "done"
    /\ req' = IdleReq
    /\ prev' = IF req.op = "answer" /\ req.out.kind = "return"
               THEN <<[q |-> req.q, out |-> req.out, variant |-> req.variant]>>
               ELSE prev
    /\ UNCHANGED <<storeVars, harnessVars, server, mockFlag, used, kConf>>

(***************************************************************************)
(* semantic_test.py: the harness.  The server it talks to is seen through  *)
(* the outcomes of its HTTP requests.                                      *)
(***************************************************************************)
\* test_kubernetes_query, line 86: wait_for_server(health_url, max_retries=3, ...)
InitialRetries == 3

\* test_kubernetes_query, line 101: wait_for_server(health_url, max_retries=30, ...)
ReadyRetries == 30

\* What requests.get(url, timeout=2) does at line 13: a response with status
\* 200, a response with another status, one of the two exceptions line 16
\* names, or any other exception.
ProbeOutcomes == {"200", "non200", "ConnectionError", "Timeout", "other"}

\* line 16: except (ConnectionError, Timeout)
CaughtByWait == {"ConnectionError", "Timeout"}

\* Something answers at port 8000: a server that was already there, or the
\* process the test started.
Listening == srv.ext \/ test.proc = "running"

\* A response needs a listener.
Possible(o, responses) == o \in responses => Listening

NoWait == [mr |-> 0, i |-> 0, pc |-> "none", probes |-> 0, sleeps |-> 0,
           last |-> "none", saw |-> FALSE, res |-> "none"]

\* A call wait_for_server(url, max_retries = mr, delay).
NewWait(mr) == [NoWait EXCEPT !.mr = mr, !.pc = "loop"]

\* line 18, with every iteration sleeping
SleepsAfter_Always(i, mr) == TRUE

\* line 18: if i < max_retries - 1
SleepsAfter(i, mr) == i < mr - 1

\* line 11: for i in range(max_retries); line 20: return False
WaitLoop ==
    /\ wait.pc = "loop"
    /\ wait' = IF wait.i < wait.mr
            THEN [wait EXCEPT !.pc = "probe"]
            ELSE [wait EXCEPT !.pc = "done", !.res = "false"]
    /\ UNCHANGED <<storeVars, pipeVars, test, ens, srv>>

\* lines 12-17: the probe.  Status 200 returns True; the two exceptions of
\* line 16 are swallowed; any other exception leaves the function.
WaitProbe(o) ==
    /\ wait.pc = "probe"
    /\ Possible(o, {"200", "non200"})
    /\ LET p == [wait EXCEPT !.probes = @ + 1, !.last = o]
       IN  wait' = IF o = "200"
                THEN [p EXCEPT !.pc = "done", !.res = "true", !.saw = TRUE]
                ELSE IF o \in CaughtByWait \cup {"non200"}
                THEN [p EXCEPT !.pc = "backoff"]
                ELSE [p EXCEPT !.pc = "done", !.res = "raised"]
    /\ UNCHANGED <<storeVars, pipeVars, test, ens, srv>>

\* lines 18-19: sleep unless this was the last iteration
WaitBackoff ==
    /\ wait.pc = "backoff"
    /\ wait' = [wait EXCEPT !.pc = "loop", !.i = @ + 1,
                      !.sleeps = IF SleepsAfter(wait.i, wait.mr) THEN @ + 1 ELSE @]
    /\ UNCHANGED <<storeVars, pipeVars, test, ens, srv>>

\* ---- ensure_data_loaded(server_url) ----
\* What the POST /query?q=Kubernetes of lines 26-30 meets: an exception
\* (of the request or of reading the body), a status other than 200, or a
\* 200 whose answer is, or is not, longer than 10 characters and containing
\* "kubernetes".
QueryOutcomes == {"exc", "non200", "meaningful", "not_meaningful"}

\* What the POST /add of lines 42-45 meets.
AddOutcomes == {"exc", "non200", "success", "not_success"}

NoEnsure == [pc |-> "none", probe |-> "none", adds |-> 0, addOut |-> "none",
             res |-> "none"]

NewEnsure == [NoEnsure EXCEPT !.pc = "probe"]

\* lines 27-32, with the answer never taken as evidence
Detects_Never(o) == FALSE

\* lines 27-32: status 200, len(answer) > 10 and "kubernetes" in answer.lower()
Detects(o) == o = "meaningful"

\* lines 25-34
EnsureProbe(o) ==
    /\ ens.pc = "probe"
    /\ Possible(o, {"non200", "meaningful", "not_meaningful"})
    /\ ens' = IF Detects(o)
            THEN [ens EXCEPT !.pc = "done", !.probe = o, !.res = "true"]
            ELSE [ens EXCEPT !.pc = "read", !.probe = o]
    /\ test' = [test EXCEPT !.nQuery = @ + 1]
    /\ UNCHANGED <<storeVars, pipeVars, wait, srv>>

\* lines 38-39: inputs/k8s.txt is read, or open/read raises (caught, line 52)
EnsureRead(ok) ==
    /\ ens.pc = "read"
    /\ ens' = IF ok
            THEN [ens EXCEPT !.pc = "add"]
            ELSE [ens EXCEPT !.pc = "done", !.res = "false"]
    /\ UNCHANGED <<storeVars, pipeVars, test, wait, srv>>

\* lines 42-55: the add request, and what is returned
EnsureAdd(o) ==
    /\ ens.pc = "add"
    /\ Possible(o, {"non200", "success", "not_success"})
    /\ ens' = [ens EXCEPT !.pc = "done", !.adds = @ + 1, !.addOut = o,
                      !.res = IF o = "success" THEN "true" ELSE "false"]
    /\ test' = [test EXCEPT !.nAdd = @ + 1]
    /\ srv' = [srv EXCEPT !.loaded = @ \/ o = "success",
                          !.addsAfter = IF srv.loaded /\ o # "exc"
                                        THEN @ + 1 ELSE @]
    /\ UNCHANGED <<storeVars, pipeVars, wait>>

\* ---- test_kubernetes_query ----
TestIdle == [pc |-> "idle", proc |-> "none", ready |-> FALSE, nQuery |-> 0,
             nAdd |-> 0, terms |-> 0, result |-> "none", runs |-> 0]

TestEnded == test.pc \in {"passed", "raised"}

\* line 86 and line 101, proceeding whatever wait_for_server returned
Ready_Always(res) == res # "raised"

\* line 86 and line 101: the value wait_for_server returned is True
Ready(res) == res = "true"

\* lines 80-86.  A process an earlier run left running is, for this run, a
\* server that was already there.
BeginTest ==
    /\ test.pc \in {"idle", "passed", "raised"}
    /\ test.runs < MaxTestRuns
    /\ test' = [TestIdle EXCEPT !.pc = "wait1", !.runs = test.runs + 1]
    /\ wait' = NewWait(InitialRetries)
    /\ ens' = NoEnsure
    /\ srv' = [srv EXCEPT !.ext = @ \/ test.proc = "running"]
    /\ UNCHANGED <<storeVars, pipeVars>>

\* line 86: if not wait_for_server(...)
AfterWait1 ==
    /\ test.pc = "wait1"
    /\ wait.pc = "done"
    /\ IF Ready(wait.res)
       THEN /\ test' = [test EXCEPT !.pc = "ensure", !.ready = wait.saw]
            /\ ens' = NewEnsure
       ELSE /\ test' = [test EXCEPT !.pc = IF wait.res = "raised" THEN "raised"
                                           ELSE "start"]
            /\ ens' = ens
    /\ UNCHANGED <<storeVars, pipeVars, wait, srv>>

\* line 88, lines 57-78: Popen starts the process, or start_server raises
TestStartServer(ok) ==
    /\ test.pc = "start"
    /\ test' = IF ok
               THEN [test EXCEPT !.pc = "poll", !.proc = "running"]
               ELSE [test EXCEPT !.pc = "raised"]
    /\ UNCHANGED <<storeVars, pipeVars, wait, ens, srv>>

\* The process the test started ends by itself.  What it had stored is the
\* server's own unless another server holds the port.
ProcExit ==
    /\ test.proc = "running"
    /\ test' = [test EXCEPT !.proc = "exited"]
    /\ srv' = IF srv.ext THEN srv ELSE [srv EXCEPT !.loaded = FALSE]
    /\ UNCHANGED <<storeVars, pipeVars, wait, ens>>

\* lines 91-101: poll(); an exited process raises, otherwise the second wait
Poll ==
    /\ test.pc = "poll"
    /\ IF test.proc = "exited"
       THEN /\ test' = [test EXCEPT !.pc = "raised"]
            /\ wait' = wait
       ELSE /\ test' = [test EXCEPT !.pc = "wait2"]
            /\ wait' = NewWait(ReadyRetries)
    /\ UNCHANGED <<storeVars, pipeVars, ens, srv>>

\* line 101: if not wait_for_server(...).  An exception of wait_for_server
\* leaves test_kubernetes_query here, outside the try of line 136.
AfterWait2 ==
    /\ test.pc = "wait2"
    /\ wait.pc = "done"
    /\ IF Ready(wait.res)
       THEN /\ test' = [test EXCEPT !.pc = "ensure", !.ready = wait.saw]
            /\ ens' = NewEnsure
       ELSE /\ test' = [test EXCEPT !.pc = IF wait.res = "raised" THEN "raised"
                                           ELSE "cleanup"]
            /\ ens' = ens
    /\ UNCHANGED <<storeVars, pipeVars, wait, srv>>

\* terminate() (and wait) on the process the test holds
Terminate(t) == [t EXCEPT !.terms = @ + 1,
                          !.proc = IF @ = "running" THEN "terminated" ELSE @]

\* lines 102-133: the output is read (exceptions caught, line 120), the
\* process is terminated, the test raises
Cleanup ==
    /\ test.pc = "cleanup"
    /\ test' = [Terminate(test) EXCEPT !.pc = "raised"]
    /\ srv' = IF srv.ext \/ test.proc # "running" THEN srv
              ELSE [srv EXCEPT !.loaded = FALSE]
    /\ UNCHANGED <<storeVars, pipeVars, wait, ens>>

\* lines 136-138: ensure_data_loaded has returned; its value is not used
AfterEnsure ==
    /\ test.pc = "ensure"
    /\ ens.pc = "done"
    /\ test' = [test EXCEPT !.pc = "query"]
    /\ UNCHANGED <<storeVars, pipeVars, wait, ens, srv>>

\* What lines 140-164 end in: the request raises, the status is not 200,
\* the body or an assertion fails, or everything passes.
TestOutcomes == {"exc", "non200", "assert", "pass"}

\* lines 140-166
TestQuery(o) ==
    /\ test.pc = "query"
    /\ Possible(o, {"non200", "assert", "pass"})
    /\ test' = [test EXCEPT !.pc = "finally", !.nQuery = @ + 1,
                            !.result = IF o = "pass" THEN "passed" ELSE "raised"]
    /\ UNCHANGED <<storeVars, pipeVars, wait, ens, srv>>

\* lines 168-172: terminate the server if the test started it
Finally ==
    /\ test.pc = "finally"
    /\ test' = IF test.proc # "none"
               THEN [Terminate(test) EXCEPT !.pc = test.result]
               ELSE [test EXCEPT !.pc = test.result]
    /\ srv' = IF srv.ext \/ test.proc # "running" THEN srv
              ELSE [srv EXCEPT !.loaded = FALSE]
    /\ UNCHANGED <<storeVars, pipeVars, wait, ens>>

\* Another caller of wait_for_server, with any max_retries.
CallWait(mr) ==
    /\ test.pc = "idle"
    /\ wait.pc \in {"none", "done"}
    /\ wait' = NewWait(mr)
    /\ UNCHANGED <<storeVars, pipeVars, test, ens, srv>>

\* The harness has not run.
HarnessIdle ==
    /\ test = TestIdle
    /\ wait = NoWait
    /\ ens = NoEnsure
    /\ srv = [ext |-> FALSE, loaded |-> FALSE, addsAfter |-> 0]

(***************************************************************************)
(* Specifications of the store side                                        *)
(***************************************************************************)
InitStoreVars ==
    /\ client = None
    /\ collection = None
    /\ clientCtor = 0
    /\ collCtor = 0
    /\ pc = [t \in Threads |-> "idle"]
    /\ call = [t \in Threads |-> "none"]
    /\ local = [t \in Threads |-> NoLocal]
    /\ ret = [t \in Threads |-> NoRet]
    /\ calls = 0
    /\ db = [c \in CollectionKeys |-> << >>]
    /\ runs = 0
    /\ lastAdd = << >>
    /\ qres = << >>

\* The server is not part of these specifications: it stays down.
InitStore ==
    /\ InitStoreVars
    /\ env \in SUBSET CredentialVars
    /\ sim = [p \in Queries \X Texts |-> 0]
    /\ server = ServerDown
    /\ mockFlag = StartServerEnv
    /\ used = {}
    /\ kConf = 1
    /\ req = IdleReq
    /\ prev = << >>
    /\ HarnessIdle

\* The accessors, called from concurrent handler threads.
NextAccessor ==
    \/ \E t \in Threads : StartClientCall(t)
    \/ \E t \in Threads : StartCollectionCall(t)
    \/ \E t \in Threads : ClientCheck(t)
    \/ \E t \in Threads : ClientNew(t)
    \/ \E t \in Threads : ClientAssign(t)
    \/ \E t \in Threads : ClientReturn(t)
    \/ \E t \in Threads : CollCheck(t)
    \/ \E t \in Threads : CollNew(t)
    \/ \E t \in Threads : CollAssign(t)
    \/ \E t \in Threads : CollReturn(t)

SpecAccessor == InitStore /\ [][NextAccessor]_vars

\* Ingestion by embed.py and retrieval by one handler going through the
\* accessors.
NextIngest ==
    \/ StartClientCall(1)
    \/ StartCollectionCall(1)
    \/ ClientCheck(1)
    \/ ClientNew(1)
    \/ ClientAssign(1)
    \/ ClientReturn(1)
    \/ CollCheck(1)
    \/ CollNew(1)
    \/ CollAssign(1)
    \/ CollReturn(1)
    \/ \E q \in Queries : AccessorQuery(1, q)
    \/ \E text \in Texts : RunEmbed(text)

SpecIngest == InitStore /\ [][NextIngest]_vars

(***************************************************************************)
(* SpecPipeline                                                            *)
(***************************************************************************)
InitPipeline ==
    /\ InitStoreVars
    /\ env = CredentialVars
    /\ sim \in [Queries \X Texts -> 0..MaxScore]
    /\ server = ServerDown
    /\ mockFlag \in FlagValues
    /\ used = {}
    /\ kConf \in 1..MaxK
    /\ req = IdleReq
    /\ prev = << >>
    /\ HarnessIdle

NextPipeline ==
    \/ HarnessStartServer
    \/ \E f \in FlagValues : ExternalStartServer(f)
    \/ StopServer
    \/ \E f \in FlagValues : SetFlag(f)
    \/ \E q \in AllQueries : BeginAnswer(q)
    \/ Validate
    \/ StoreQuery
    \/ Retrieved
    \/ Generate
    \/ \E text \in Texts, id \in DocIds : BeginIngest(text, id)
    \/ StoreAdd
    \/ Finish

SpecPipeline == InitPipeline /\ [][NextPipeline]_vars

(***************************************************************************)
(* SpecSequential: accessor calls that do not overlap.  A call starts only *)
(* when no other call is in progress; the callers differ, so that what     *)
(* each of them got can be compared.                                       *)
(***************************************************************************)
NextSequential ==
    \/ \E t \in Threads : AllIdle /\ StartClientCall(t)
    \/ \E t \in Threads : AllIdle /\ StartCollectionCall(t)
    \/ \E t \in Threads : \E c \in ClientArgs :
          AllIdle /\ StartDirectCollectionCall(t, c)
    \/ \E t \in Threads : ClientCheck(t)
    \/ \E t \in Threads : ClientNew(t)
    \/ \E t \in Threads : ClientAssign(t)
    \/ \E t \in Threads : ClientReturn(t)
    \/ \E t \in Threads : CollCheck(t)
    \/ \E t \in Threads : CollNew(t)
    \/ \E t \in Threads : CollAssign(t)
    \/ \E t \in Threads : CollReturn(t)

SpecSequential == InitStore /\ [][NextSequential]_vars

(***************************************************************************)
(* SpecHarness: runs of test_kubernetes_query, against a port where a      *)
(* server may or may not already be listening.                             *)
(***************************************************************************)
InitHarness ==
    /\ InitStoreVars
    /\ env = CredentialVars
    /\ sim = [p \in Queries \X Texts |-> 0]
    /\ server = ServerDown
    /\ mockFlag = StartServerEnv
    /\ used = {}
    /\ kConf = 1
    /\ req = IdleReq
    /\ prev = << >>
    /\ test = TestIdle
    /\ wait = NoWait
    /\ ens = NoEnsure
    /\ srv \in {[ext |-> b, loaded |-> FALSE, addsAfter |-> 0] : b \in BOOLEAN}

NextHarness ==
    \/ BeginTest
    \/ WaitLoop
    \/ \E o \in ProbeOutcomes : WaitProbe(o)
    \/ WaitBackoff
    \/ AfterWait1
    \/ \E ok \in BOOLEAN : TestStartServer(ok)
    \/ ProcExit
    \/ Poll
    \/ AfterWait2
    \/ Cleanup
    \/ \E o \in QueryOutcomes : EnsureProbe(o)
    \/ \E ok \in BOOLEAN : EnsureRead(ok)
    \/ \E o \in AddOutcomes : EnsureAdd(o)
    \/ AfterEnsure
    \/ \E o \in TestOutcomes : TestQuery(o)
    \/ Finally

SpecHarness == InitHarness /\ [][NextHarness]_vars

(***************************************************************************)
(* SpecWait: wait_for_server called with any max_retries from 0 up.        *)
(***************************************************************************)
NextWait ==
    \/ \E mr \in 0..MaxRetries : CallWait(mr)
    \/ WaitLoop
    \/ \E o \in ProbeOutcomes : WaitProbe(o)
    \/ WaitBackoff

SpecWait == InitHarness /\ [][NextWait]_vars

(***************************************************************************)
(* Claims about the store side.                                            *)
(***************************************************************************)

\* C1: under every interleaving of concurrent first-time accessor calls (all
\* credentials set), the client and the collection are each built exactly
\* once (never a second time), and all callers of one accessor are handed the
\* same instance.
C1_BuiltOnceSharedByAll ==
    env = CredentialVars =>
        /\ clientCtor <= 1
        /\ collCtor <= 1
        /\ \A t, u \in Threads :
             (/\ pc[t] = "idle" /\ pc[u] = "idle"
              /\ call[t] = call[u]
              /\ ret[t].kind = "return" /\ ret[u].kind = "return")
             => ret[t].val = ret[u].val

\* C2: after any sequence of adds the collection holds exactly one record for
\* the id, and its text is the text of the most recent add for that id.
C2_LastWriteWins ==
    lastAdd # << >> =>
        /\ Cardinality(RecordsWithId(db[EmbedCollection], EmbedId)) = 1
        /\ \A i \in RecordsWithId(db[EmbedCollection], EmbedId) :
             db[EmbedCollection][i].text = lastAdd[1]

\* C3: a query(q, 1) made through the store accessor (all credentials set)
\* after a document was ingested returns one passage, whose text is the
\* ingested text.
C3_RoundTripThroughAccessor ==
    (env = CredentialVars /\ qres # << >> /\ Len(qres[1].held) = 1) =>
        /\ Len(qres[1].passages) = 1
        /\ qres[1].passages[1].text = qres[1].held[1].text

\* C6: with a remote credential missing, every finished accessor call has
\* failed with ConfigurationError, and neither singleton is set.
C6_MissingCredentialsConfigurationError ==
    env # CredentialVars =>
        /\ \A t \in Threads :
             (pc[t] = "idle" /\ ret[t].kind # "none")
             => ret[t] = Raised("ConfigurationError")
        /\ client = None
        /\ collection = None

(***************************************************************************)
(* Claims about the served pipeline.                                       *)
(***************************************************************************)
\* The store's records, and the score of the record at index i for the
\* request's query.
Recs == db[AccessorCollection]
ScoreOf(i) == sim[<<req.q, Recs[i].text>>]

\* The request is an answer call whose retrieval has returned.
RetrievalDone ==
    req.op = "answer" /\ req.nq >= 1 /\ req.err # "StoreUnavailableError"

\* The request's query is empty or consists of blanks only.
BlankQuery == \A i \in 1..Len(req.q) : req.q[i] = " "

\* C4: when retrieval returns no passage, answer returns the fixed
\* no-information Answer and generate is not invoked in that call; generate
\* is invoked only in calls whose retrieval returned at least one passage.
C4_EmptyRetrievalSkipsGenerator ==
    /\ (RetrievalDone /\ req.passages = << >>) =>
          /\ req.ng = 0
          /\ req.pc \in {"retrieved", "done"}
          /\ req.pc = "done" => req.out = Returned(NoInfoAnswer)
    /\ (req.op = "answer" /\ (req.ng >= 1 \/ req.pc = "generate")) =>
          /\ RetrievalDone
          /\ Len(req.passages) >= 1

C4_Witness ==
    /\ RetrievalDone
    /\ req.passages = << >>
    /\ req.pc = "done"
    /\ req.out = Returned(NoInfoAnswer)
    /\ req.ng = 0

\* C5: answer fails with InvalidQueryError for every empty or blank-only
\* query, without a call of EmbeddingStore.query or AnswerGenerator.generate
\* and with the store as it was.
C5_BlankQueryRejected ==
    (req.op = "answer" /\ BlankQuery /\ req.pc # "validate") =>
        /\ req.pc = "done"
        /\ req.out = Raised("InvalidQueryError")
        /\ req.nq = 0
        /\ req.ng = 0
        /\ Recs = req.snap

C5_Witness ==
    /\ req.op = "answer"
    /\ req.q = <<" ", " ">>
    /\ Recs # << >>
    /\ req.pc = "done"
    /\ req.out = Raised("InvalidQueryError")

C8_VariantFixedAtStart ==
    /\ server.up => used \subseteq {SelectVariant(server.flag)}
    /\ (req.op = "answer" /\ req.ng >= 1) => req.variant = SelectVariant(server.flag)
    /\ req.err = "GenerationUnavailableError" =>
          /\ req.variant = "real"
          /\ req.pc = "done"
          /\ req.out = Raised("GenerationUnavailableError")
    /\ (server.up /\ server.by = "harness") =>
          /\ server.flag = "1"
          /\ used \subseteq {"mock"}
          /\ req.variant \in {"none", "mock"}

C8_Witness ==
    /\ server.up
    /\ server.by = "harness"
    /\ mockFlag = "0"
    /\ req.pc = "done"
    /\ req.ng = 1
    /\ req.variant = "mock"

\* C9: a failed add, query or generate call ends the request with that error
\* at the first failure: no backend or model call is made twice in a request,
\* no error is turned into a returned value, and the only condition answered
\* locally is an empty retrieval result.
C9_NoRetryErrorsSurface ==
    /\ req.nq <= 1
    /\ req.ng <= 1
    /\ req.na <= 1
    /\ req.err # "none" => (req.pc = "done" /\ req.out = Raised(req.err))
    /\ (req.pc = "done" /\ req.out.kind = "return") => req.err = "none"
    /\ (req.pc = "done" /\ req.out = Returned(NoInfoAnswer)) =>
          (RetrievalDone /\ req.passages = << >>)

C9_Witness ==
    /\ req.op = "answer"
    /\ req.err = "GenerationUnavailableError"
    /\ req.nq = 1
    /\ req.ng = 1
    /\ req.out = Raised("GenerationUnavailableError")

\* An answer call for a non-blank query has returned, with k = 1 and a store
\* holding at least one document.
AnswerReturned ==
    /\ req.op = "answer"
    /\ req.pc = "done"
    /\ req.out.kind = "return"
    /\ kConf = 1
    /\ Len(Recs) >= 1

C11_AnswerLeavesStoreUnchanged ==
    /\ [](req.op = "answer" => db[AccessorCollection] = req.snap)
    /\ [][(req.op = "answer" \/ req'.op = "answer") => db' = db]_vars
    /\ []((/\ req.op = "answer"
           /\ req.pc = "done"
           /\ req.out.kind = "return"
           /\ prev # << >>
           /\ prev[1].q = req.q)
          => /\ req.out.val.source_passages = prev[1].out.val.source_passages
             /\ (req.variant = prev[1].variant /\ req.variant # "real")
                   => req.out = prev[1].out)

\* A second answer call for the same query has returned, from a store that
\* holds documents, after an earlier one and with no add in between.
C11_Witness ==
    /\ req.op = "answer"
    /\ req.pc = "done"
    /\ req.out.kind = "return"
    /\ prev # << >>
    /\ prev[1].q = req.q
    /\ prev[1].variant = "mock"
    /\ req.variant = "mock"
    /\ Len(db[AccessorCollection]) = 2
    /\ db[AccessorCollection] = req.snap

(***************************************************************************)
(* C12: the singletons under non-overlapping calls.                        *)
(***************************************************************************)

\* C12: in any sequence of non-overlapping calls of get_chroma_client and
\* get_chroma_collection, at most one client and at most one collection are
\* built; a singleton that is set is never assigned again; and every call
\* that returns hands out the current singleton, so that two callers of the
\* same accessor (get_chroma_collection called through the dependency or
\* directly with any client argument) hold the same instance.
C12_SingletonsBuiltOnceNeverReplaced ==
    /\ [](clientCtor <= 1 /\ collCtor <= 1)
    /\ [][/\ client # None => client' = client
          /\ collection # None => collection' = collection]_vars
    /\ [](\A t \in Threads :
            (pc[t] = "idle" /\ ret[t].kind = "return") =>
                /\ ret[t].val # None
                /\ ret[t].val = IF call[t] = "client" THEN client ELSE collection)
    /\ [](\A t, u \in Threads :
            (/\ pc[t] = "idle" /\ ret[t].kind = "return"
             /\ pc[u] = "idle" /\ ret[u].kind = "return"
             /\ (call[t] = "client") = (call[u] = "client"))
            => ret[t].val = ret[u].val)

\* One caller got the collection through the dependency, another by a direct
\* call with a client that is not the singleton: one collection was built,
\* and both hold it.
C12_Witness ==
    /\ \E t, u \in Threads :
         /\ call[t] = "collection" /\ pc[t] = "idle" /\ ret[t].kind = "return"
         /\ call[u] = "direct" /\ pc[u] = "idle" /\ ret[u].kind = "return"
         /\ local[u].cl = OtherClient
         /\ ret[t].val = ret[u].val
    /\ clientCtor = 1
    /\ collCtor = 1

(***************************************************************************)
(* C18: a construction that raises.                                        *)
(***************************************************************************)

\* C18: when chromadb.CloudClient(...) or get_or_create_collection(...)
\* raises, the call ends with that exception and assigns nothing: the step
\* leaves both singletons as they were, so the one it was building is not
\* set by it and a client held while the collection creation failed is
\* kept.  A call that then finds the singleton unset goes to the
\* construction again; a call that finds it set does not construct but
\* returns it; no call returns an unset singleton.
C18_FailedConstructionLeavesUnset ==
    /\ [][\A t \in Threads :
            (pc[t] # "idle" /\ pc'[t] = "idle" /\ ret'[t].kind = "raise") =>
                /\ pc[t] \in {"client_new", "coll_new"}
                /\ client' = client
                /\ collection' = collection
                /\ clientCtor' = clientCtor
                /\ collCtor' = collCtor
                /\ pc[t] = "coll_new" /\ call[t] = "collection" =>
                      client' # None]_vars
    /\ [][\A t \in Threads :
            /\ (pc[t] = "client_check" /\ pc'[t] # pc[t])
                  => pc'[t] = IF client = None THEN "client_new"
                              ELSE "client_return"
            /\ (pc[t] = "coll_check" /\ pc'[t] # pc[t])
                  => pc'[t] = IF collection = None THEN "coll_new"
                              ELSE "coll_return"]_vars
    /\ [](\A t \in Threads :
            (pc[t] = "idle" /\ ret[t].kind = "return") => ret[t].val # None)

\* One caller's get_chroma_collection raised in get_or_create_collection,
\* holding the client; the next caller's get_chroma_collection returned the
\* collection, created through that same client: one client was built.
C18_Witness ==
    /\ \E t, u \in Threads :
         /\ call[t] = "collection" /\ pc[t] = "idle" /\ ret[t].kind = "raise"
         /\ local[t].cl = client
         /\ call[u] = "collection" /\ pc[u] = "idle" /\ ret[u].kind = "return"
         /\ local[u].cl = client
         /\ ret[u].val = collection
    /\ client # None
    /\ clientCtor = 1
    /\ collCtor = 1

(***************************************************************************)
(* Claims about the harness, semantic_test.py.                             *)
(***************************************************************************)

\* C13: once a call of ensure_data_loaded has added the document to a server
\* (its add request was answered with status 200 and "success"), no later
\* call of ensure_data_loaded against that server sends an add request.
C13_DocumentIngestedAtMostOnce == srv.loaded => srv.addsAfter = 0

\* C14: when test_kubernetes_query has returned or raised, a server process
\* it started is no longer running (it was terminated, or had exited by
\* itself), whatever the exit path; and a test that started no process has
\* terminated nothing, so a server that was already running is left alone.
C14_StartedServerTerminatedOnEveryExit ==
    /\ (TestEnded /\ test.proc # "none") => test.proc \in {"exited", "terminated"}
    /\ test.proc = "none" => test.terms = 0

\* C15: a call wait_for_server(url, max_retries, delay) makes at most
\* max_retries probes and at most max_retries - 1 sleeps, never a sleep
\* after the last probe; it returns True exactly when a probe returned
\* status 200, and that probe is its last; it returns False exactly when it
\* has made max_retries probes (none for max_retries = 0) and each of them
\* returned another status, a connection error or a timeout.
C15_WaitForServerBounded ==
    /\ wait.probes <= wait.mr
    /\ wait.sleeps <= wait.probes
    /\ wait.mr > 0 => wait.sleeps <= wait.mr - 1
    /\ wait.mr = 0 => (wait.probes = 0 /\ wait.sleeps = 0)
    /\ (wait.res = "true") = wait.saw
    /\ wait.saw => (wait.pc = "done" /\ wait.last = "200")
    /\ wait.res = "false" =>
          /\ wait.probes = wait.mr
          /\ wait.mr > 0 => (wait.sleeps = wait.mr - 1
                             /\ wait.last \in CaughtByWait \cup {"non200"})
    /\ (wait.pc = "done" /\ wait.probes = wait.mr /\ ~wait.saw
          /\ wait.last \in CaughtByWait \cup {"non200", "none"})
       => wait.res = "false"
    /\ wait.pc = "done" => wait.res \in {"true", "false", "raised"}
    /\ wait.res = "raised" => wait.last = "other"

\* A call with max_retries = MaxRetries returned False after that many
\* failed probes and one sleep fewer.
C15_Witness ==
    /\ wait.pc = "done"
    /\ wait.res = "false"
    /\ wait.mr = MaxRetries
    /\ wait.probes = MaxRetries
    /\ wait.sleeps = MaxRetries - 1

\* C16: test_kubernetes_query sends a query or add request only after a
\* health probe of this run returned status 200; a run in which neither the
\* 3-probe check nor the 30-probe wait saw a 200 ends by raising, with no
\* query and no add request sent.
C16_NoRequestBeforeHealthy ==
    /\ (test.nQuery + test.nAdd > 0) => test.ready
    /\ test.pc \in {"ensure", "query", "finally", "passed"} => test.ready
    /\ ens.pc # "none" => test.ready
    /\ (TestEnded /\ ~test.ready) =>
          (test.pc = "raised" /\ test.nQuery = 0 /\ test.nAdd = 0)

\* The 3 probes failed, the test started a server, the 30 probes failed too:
\* the test terminated the server and raised, having sent no request.
C16_Witness ==
    /\ test.pc = "raised"
    /\ ~test.ready
    /\ test.proc = "terminated"
    /\ wait.mr = ReadyRetries
    /\ wait.probes = ReadyRetries
    /\ wait.res = "false"
    /\ test.nQuery = 0
    /\ test.nAdd = 0

\* C17: a call of ensure_data_loaded sends at most one add request, and none
\* when its probe query returned status 200 with an answer longer than 10
\* characters containing "kubernetes"; a failed probe, file read or add does
\* not leave the function as an exception (the call ends with False, and the
\* test goes on); and it returns True only if the probe detected loaded data
\* or the add response had status 200 and status field "success".
C17_EnsureDataLoadedContained ==
    /\ ens.adds <= 1
    /\ ens.probe = "meaningful" =>
          (ens.adds = 0 /\ ens.pc = "done" /\ ens.res = "true")
    /\ ens.res \in {"none", "true", "false"}
    /\ ens.pc = "done" => ens.res \in {"true", "false"}
    /\ ens.pc # "done" => ens.res = "none"
    /\ ens.res = "true" => (ens.probe = "meaningful" \/ ens.addOut = "success")
    /\ (ens.pc = "done" /\ ens.probe # "meaningful" /\ ens.addOut # "success")
          => ens.res = "false"
    /\ TestEnded => ens.pc \in {"none", "done"}
    /\ test.pc = "query" => ens.pc = "done"

\* The probe raised and so did the add request: the call returned False with
\* one add request sent, and the test went on to its query.
C17_Witness ==
    /\ ens.pc = "done"
    /\ ens.probe = "exc"
    /\ ens.addOut = "exc"
    /\ ens.adds = 1
    /\ ens.res = "false"
    /\ test.pc = "query"

====
